---- MODULE Spec2Model ----
(***************************************************************************)
(* BOM analyzer: local item-number validation (ItemValidator), the order   *)
(* validator (BOMAnalyzer.validate_item_numbers) and the reconciliation of *)
(* local issues with the external analysis (BOMAnalyzer.analyze_order).    *)
(*                                                                         *)
(* A Python str is a sequence of one-character strings; a formatted        *)
(* message (f-string) is the concatenation of its literal fragments, each  *)
(* one token, with the interpolated strings.                               *)
(***************************************************************************)
EXTENDS Integers, Sequences, FiniteSets, TLC

VARIABLES reference_items, item_patterns, call, ret, callers

vars == <<reference_items, item_patterns, call, ret, callers>>

-----------------------------------------------------------------------------
(* Bounds of the model *)

\* longest generated item-number body (characters after the leading letters)
MaxBody == 2
\* most items in an order
MaxItems == 2
\* most issues in the external analysis
MaxExt == 2
-----------------------------------------------------------------------------
(* Characters and strings *)

Upper == {"A", "B", "C", "D", "E", "F", "G", "H", "I", "J", "K", "L", "M",
          "N", "O", "P", "Q", "R", "S", "T", "U", "V", "W", "X", "Y", "Z"}

Digit == {"0", "1", "2", "3", "4", "5", "6", "7", "8", "9"}

Min(a, b) == IF a < b THEN a ELSE b

\* s.endswith(p)
EndsWith(s, p) ==
    Len(s) >= Len(p) /\ SubSeq(s, Len(s) - Len(p) + 1, Len(s)) = p

\* p in s, for two strings
Contains(s, p) ==
    \E i \in 1..(Len(s) - Len(p) + 1) : SubSeq(s, i, i + Len(p) - 1) = p

\* '-' in s
HasDash(s) == \E i \in 1..Len(s) : s[i] = "-"

\* index of the first '-' of s (s has one)
FirstDash(s) == CHOOSE i \in 1..Len(s) : s[i] = "-" /\ \A j \in 1..(i - 1) : s[j] # "-"

\* an item number without '-' is its own prefix
PrefixOf_Whole(s) == IF HasDash(s) THEN SubSeq(s, 1, FirstDash(s) - 1) ELSE s

\* item_number.split('-')[0] if '-' in item_number else ""
PrefixOf(s) == IF HasDash(s) THEN SubSeq(s, 1, FirstDash(s) - 1) ELSE <<>>

\* all sequences over alphabet A of length at most n
RECURSIVE SeqsUpTo(_, _)
SeqsUpTo(A, n) ==
    IF n = 0 THEN {<<>>}
    ELSE LET shorter == SeqsUpTo(A, n - 1)
         IN  shorter \cup {Append(s, c) : s \in shorter, c \in A}

-----------------------------------------------------------------------------
(* Regular expressions of the pattern registry.  A compiled pattern is the *)
(* sequence of its atoms between ^ and $: a character class repeated       *)
(* between lo and hi times (hi ignored when unbounded).                    *)

Lit(c) == [cls |-> {c}, lo |-> 1, hi |-> 1, unbounded |-> FALSE]

Rep(cls, lo, hi) == [cls |-> cls, lo |-> lo, hi |-> hi, unbounded |-> FALSE]

Plus(cls) == [cls |-> cls, lo |-> 1, hi |-> 1, unbounded |-> TRUE]

\* the atoms of a literal string
RECURSIVE Lits(_)
Lits(s) == IF s = <<>> THEN <<>> ELSE <<Lit(Head(s))>> \o Lits(Tail(s))

\* `$` of Python's re: the end of the string, or just before a final newline
AtDollar(s, j) == j = Len(s) + 1 \/ (j = Len(s) /\ s[j] = "\n")

\* atoms i.. of pat match s from position j on, up to `$`
RECURSIVE MatchFrom(_, _, _, _)
MatchFrom(pat, i, s, j) ==
    IF i > Len(pat) THEN AtDollar(s, j)
    ELSE LET a    == pat[i]
             left == Len(s) - j + 1
             most == IF a.unbounded THEN left ELSE Min(a.hi, left)
         IN  \E k \in a.lo..most :
                /\ \A m \in j..(j + k - 1) : s[m] \in a.cls
                /\ MatchFrom(pat, i + 1, s, j + k)

RE_PCB == "^PCB-[A-Z]\\d{4}$"
RE_CAP == "^CAP-\\d{4}-\\d{1,3}V$"
RE_RES == "^RES-\\d+[KM]?-\\d+\\.\\d+W$"
RE_IC == "^IC-\\d{4}[A-Z]?$"
RE_CONN == "^CONN-[A-Z0-9]+-[MF]$"
RE_DIODE == "^DIODE-\\d{1}N\\d{4}$"

\* re.compile of the six patterns of the registry
Compile(pattern) ==
    CASE pattern = RE_PCB ->
           Lits(<<"P", "C", "B", "-">>) \o <<Rep(Upper, 1, 1), Rep(Digit, 4, 4)>>
      [] pattern = RE_CAP ->
           Lits(<<"C", "A", "P", "-">>) \o <<Rep(Digit, 4, 4), Lit("-"),
                                            Rep(Digit, 1, 3), Lit("V")>>
      [] pattern = RE_RES ->
           Lits(<<"R", "E", "S", "-">>) \o <<Plus(Digit), Rep({"K", "M"}, 0, 1),
                                            Lit("-"), Plus(Digit), Lit("."),
                                            Plus(Digit), Lit("W")>>
      [] pattern = RE_IC ->
           Lits(<<"I", "C", "-">>) \o <<Rep(Digit, 4, 4), Rep(Upper, 0, 1)>>
      [] pattern = RE_CONN ->
           Lits(<<"C", "O", "N", "N", "-">>) \o <<Plus(Upper \cup Digit), Lit("-"),
                                                 Rep({"M", "F"}, 1, 1)>>
      [] pattern = RE_DIODE ->
           Lits(<<"D", "I", "O", "D", "E", "-">>) \o <<Rep(Digit, 1, 1), Lit("N"),
                                                      Rep(Digit, 4, 4)>>

\* re.match(pattern, item_number) is not None
re_match(pattern, s) == MatchFrom(Compile(pattern), 1, s, 1)

\* self.item_patterns as set by __init__
PatternRegistry ==
    (<<"P", "C", "B">> :> RE_PCB) @@
    (<<"C", "A", "P">> :> RE_CAP) @@
    (<<"R", "E", "S">> :> RE_RES) @@
    (<<"I", "C">> :> RE_IC) @@
    (<<"C", "O", "N", "N">> :> RE_CONN) @@
    (<<"D", "I", "O", "D", "E">> :> RE_DIODE)

-----------------------------------------------------------------------------
(* Python values of the fields of an item and of a catalog entry *)

PyNone == [type |-> "NoneType", s |-> <<>>, n |-> 0]

PyStr(s) == [type |-> "str", s |-> s, n |-> 0]

PyInt(n) == [type |-> "int", s |-> <<>>, n |-> n]

\* a key the dict does not have
Absent == [type |-> "absent", s |-> <<>>, n |-> 0]

\* bool(v)
Truthy(v) ==
    CASE v.type = "str" -> v.s # <<>>
      [] v.type = "int" -> v.n # 0
      [] OTHER -> FALSE

\* d.get(key): None when the key is absent
Get(v) == IF v = Absent THEN PyNone ELSE v

\* d.get(key, default)
GetOr(v, default) == IF v = Absent THEN default ELSE v

DigitChars == <<"0", "1", "2", "3", "4", "5", "6", "7", "8", "9">>

\* str(n) for n >= 0
RECURSIVE IntToStr(_)
IntToStr(n) ==
    IF n < 10 THEN <<DigitChars[n + 1]>>
    ELSE IntToStr(n \div 10) \o <<DigitChars[(n % 10) + 1]>>

\* str(v), as an f-string interpolates it
Format(v) ==
    CASE v.type = "str" -> v.s
      [] v.type = "int" -> IntToStr(v.n)
      [] OTHER -> <<"N", "o", "n", "e">>

-----------------------------------------------------------------------------
(* Reference catalog: self.reference_items, a dict, kept in insertion      *)
(* order as a sequence of entries with distinct item numbers.              *)

Keys(cat) == {cat[i].item_number : i \in DOMAIN cat}

\* position of key k in the dict
IndexOf(cat, k) == CHOOSE i \in DOMAIN cat : cat[i].item_number = k

\* cat[k] = {'description': d, 'category': c}
DictSet(cat, k, d, c) ==
    LET e == [item_number |-> k, description |-> d, category |-> c]
    IN  IF k \in Keys(cat) THEN [cat EXCEPT ![IndexOf(cat, k)] = e]
        ELSE Append(cat, e)

Columns == {"item_number", "description", "category"}

\* the open, the header or a row of the file raises inside the try block
FileFails(file) ==
    \/ ~file.readable
    \/ file.rows # <<>> /\ ~(Columns \subseteq file.fieldnames)
    \/ file.error_at \in 1..Len(file.rows)

\* the except branch empties the catalog
RECURSIVE LoadRows_ClearOnError(_, _, _)
LoadRows_ClearOnError(cat, file, i) ==
    IF i > Len(file.rows) THEN cat
    ELSE IF i = file.error_at THEN <<>>
    ELSE IF ~(Columns \subseteq file.fieldnames) THEN <<>>
    ELSE LET row == file.rows[i]
         IN  LoadRows_ClearOnError(
                 DictSet(cat, row.item_number, row.description, row.category),
                 file, i + 1)

\* rows i.. of the reader are stored until one raises: the reader itself at
\* row file.error_at, or the lookup of a column the header does not have
RECURSIVE LoadRows(_, _, _)
LoadRows(cat, file, i) ==
    IF i > Len(file.rows) THEN cat
    ELSE IF i = file.error_at THEN cat
    ELSE IF ~(Columns \subseteq file.fieldnames) THEN cat
    ELSE LET row == file.rows[i]
         IN  LoadRows(DictSet(cat, row.item_number, row.description, row.category),
                      file, i + 1)

\* ItemValidator.load_reference_data: open() raises for a file that cannot be
\* read; every exception is caught and printed
load_reference_data(cat, file) ==
    IF ~file.readable THEN cat ELSE LoadRows(cat, file, 1)

\* what load_reference_data gives its caller: the except branch prints the
\* exception and the method ends, as it does without an exception
LoadResult(file) ==
    IF FileFails(file) THEN [kind |-> "return", value |-> PyNone]
    ELSE [kind |-> "return", value |-> PyNone]

\* ItemValidator.__init__: an empty catalog, loaded when a reference file is
\* given and exists
NewCatalog(reference_file) ==
    IF reference_file.given /\ reference_file.exists
    THEN load_reference_data(<<>>, reference_file)
    ELSE <<>>

-----------------------------------------------------------------------------
(* Item validator *)

\* the rule of the prefix is tried before the catalog
validate_item_number_PatternFirst(cat, patterns, item_number) ==
    LET prefix == PrefixOf(item_number)
    IN  IF prefix \in DOMAIN patterns
        THEN LET pattern == patterns[prefix]
             IN  IF re_match(pattern, item_number) THEN <<TRUE, <<>>>>
                 ELSE <<FALSE, <<"Item number ">> \o item_number
                               \o <<" does not match expected pattern ">>
                               \o <<pattern>>>>
        ELSE IF item_number \in Keys(cat) THEN <<TRUE, <<>>>>
        ELSE <<FALSE, <<"Unknown item number prefix: ">> \o prefix>>

\* a known prefix is enough: the rule is not applied
validate_item_number_KnownPrefix(cat, patterns, item_number) ==
    IF item_number \in Keys(cat) THEN <<TRUE, <<>>>>
    ELSE LET prefix == PrefixOf(item_number)
         IN  IF prefix \in DOMAIN patterns THEN <<TRUE, <<>>>>
             ELSE <<FALSE, <<"Unknown item number prefix: ">> \o prefix>>

\* an item number whose prefix has no rule is let through
validate_item_number_UnknownAccepted(cat, patterns, item_number) ==
    IF item_number \in Keys(cat) THEN <<TRUE, <<>>>>
    ELSE LET prefix == PrefixOf(item_number)
         IN  IF prefix \in DOMAIN patterns
             THEN LET pattern == patterns[prefix]
                  IN  IF re_match(pattern, item_number) THEN <<TRUE, <<>>>>
                      ELSE <<FALSE, <<"Item number ">> \o item_number
                                    \o <<" does not match expected pattern ">>
                                    \o <<pattern>>>>
             ELSE <<TRUE, <<>>>>

\* an unknown prefix is refused without a message
validate_item_number_SilentUnknown(cat, patterns, item_number) ==
    IF item_number \in Keys(cat) THEN <<TRUE, <<>>>>
    ELSE LET prefix == PrefixOf(item_number)
         IN  IF prefix \in DOMAIN patterns
             THEN LET pattern == patterns[prefix]
                  IN  IF re_match(pattern, item_number) THEN <<TRUE, <<>>>>
                      ELSE <<FALSE, <<"Item number ">> \o item_number
                                    \o <<" does not match expected pattern ">>
                                    \o <<pattern>>>>
             ELSE <<FALSE, <<>>>>

\* ItemValidator.validate_item_number: the catalog first, then the rule of
\* the prefix
validate_item_number(cat, patterns, item_number) ==
    IF item_number \in Keys(cat) THEN <<TRUE, <<>>>>
    ELSE LET prefix == PrefixOf(item_number)
         IN  IF prefix \in DOMAIN patterns
             THEN LET pattern == patterns[prefix]
                  IN  IF re_match(pattern, item_number) THEN <<TRUE, <<>>>>
                      ELSE <<FALSE, <<"Item number ">> \o item_number
                                    \o <<" does not match expected pattern ">>
                                    \o <<pattern>>>>
             ELSE <<FALSE, <<"Unknown item number prefix: ">> \o prefix>>

\* the reverse of a sequence
Reverse(s) == [i \in 1..Len(s) |-> s[Len(s) - i + 1]]

\* the matching keys are collected last first
similar_items_Reversed(cat, prefix) ==
    Reverse(SelectSeq([i \in DOMAIN cat |-> cat[i].item_number],
                      LAMBDA k : Contains(k, prefix)))

\* the keys of the catalog that contain prefix, in iteration order
similar_items(cat, prefix) ==
    SelectSeq([i \in DOMAIN cat |-> cat[i].item_number],
              LAMBDA k : Contains(k, prefix))

\* the catalog is scanned before the CONN case
suggest_correction_CatalogFirst(cat, item_number) ==
    LET prefix == PrefixOf(item_number)
    IN  IF similar_items(cat, prefix) # <<>>
        THEN PyStr(similar_items(cat, prefix)[1])
        ELSE IF /\ prefix = <<"C", "O", "N", "N">>
                /\ ~EndsWith(item_number, <<"-", "M">>)
                /\ ~EndsWith(item_number, <<"-", "F">>)
        THEN PyStr(item_number \o <<"-", "F">>)
        ELSE PyNone

\* ItemValidator.suggest_correction: the CONN case, then the first key of
\* the catalog that contains the prefix
suggest_correction(cat, item_number) ==
    LET prefix == PrefixOf(item_number)
    IN  IF /\ prefix = <<"C", "O", "N", "N">>
           /\ ~EndsWith(item_number, <<"-", "M">>)
           /\ ~EndsWith(item_number, <<"-", "F">>)
        THEN PyStr(item_number \o <<"-", "F">>)
        ELSE IF similar_items(cat, prefix) # <<>>
             THEN PyStr(similar_items(cat, prefix)[1])
             ELSE PyNone

-----------------------------------------------------------------------------
(* Inputs: item numbers, reference files, orders *)

PCB_X7700 == <<"P", "C", "B", "-", "X", "7", "7", "0", "0">>
CAP_3300_10V == <<"C", "A", "P", "-", "3", "3", "0", "0", "-", "1", "0", "V">>
RES_2K_025W == <<"R", "E", "S", "-", "2", "K", "-", "0", ".", "2", "5", "W">>
IC_8085 == <<"I", "C", "-", "8", "0", "8", "5">>
CONN_7777 == <<"C", "O", "N", "N", "-", "7", "7", "7", "7">>
DIODE_1N4001 == <<"D", "I", "O", "D", "E", "-", "1", "N", "4", "0", "0", "1">>
CONN_DB9_F == <<"C", "O", "N", "N", "-", "D", "B", "9", "-", "F">>
CONN_DB9_M == <<"C", "O", "N", "N", "-", "D", "B", "9", "-", "M">>
PCB_A1234 == <<"P", "C", "B", "-", "A", "1", "2", "3", "4">>
CAP_2200_25V == <<"C", "A", "P", "-", "2", "2", "0", "0", "-", "2", "5", "V">>
RES_10K_050W == <<"R", "E", "S", "-", "1", "0", "K", "-", "0", ".", "5", "0", "W">>
IC_8085X == <<"I", "C", "-", "8", "0", "8", "5", "X">>
DIODE_2N4001 == <<"D", "I", "O", "D", "E", "-", "2", "N", "4", "0", "0", "1">>
XYZ_7 == <<"X", "Y", "Z", "-", "7">>
WIDGET == <<"W", "I", "D", "G", "E", "T">>

\* the item numbers of generate_sample_orders, of the reference data and of
\* the validator's self-test, and two that no rule and no reference row knows
SampleItemNumbers ==
    {PCB_X7700, CAP_3300_10V, RES_2K_025W, IC_8085, CONN_7777, DIODE_1N4001,
     CONN_DB9_F, CONN_DB9_M, PCB_A1234, CAP_2200_25V, RES_10K_050W,
     IC_8085X, DIODE_2N4001, XYZ_7, WIDGET}

\* the characters appended to a stem
BodyChars == {"-", "7", "F", "\n"}

Stems == SampleItemNumbers \cup DOMAIN PatternRegistry \cup {<<>>, <<"X", "Y", "Z">>}

\* the item numbers validate_item_number and suggest_correction are given
ItemNumbers == {stem \o body : stem \in Stems, body \in SeqsUpTo(BodyChars, MaxBody)}

Row(k, d, c) ==
    [item_number |-> k, description |-> PyStr(<<d>>), category |-> PyStr(<<c>>)]

\* the rows generate_reference_data writes
SampleRows ==
    << Row(PCB_X7700, "Main Circuit Board", "Electronics"),
       Row(CAP_3300_10V, "10V Capacitor", "Components"),
       Row(RES_2K_025W, "2K Ohm Resistor", "Components"),
       Row(IC_8085, "Microprocessor", "Electronics"),
       Row(CONN_DB9_F, "DB9 Female Connector", "Connectors"),
       Row(CONN_DB9_M, "DB9 Male Connector", "Connectors"),
       Row(DIODE_1N4001, "1A Diode", "Components"),
       Row(PCB_A1234, "Power Supply Board", "Electronics"),
       Row(CAP_2200_25V, "25V Capacitor", "Components"),
       Row(RES_10K_050W, "10K Ohm Resistor", "Components") >>

\* a reference file of a user: item numbers that match no rule, a row that
\* gives PCB-X7700 another description, and a short row (the reader fills
\* the missing columns with None)
LegacyRows ==
    << Row(CONN_7777, "Legacy Connector", "Connectors"),
       Row(WIDGET, "Widget", "Misc"),
       Row(PCB_X7700, "Main Board rev B", "Electronics"),
       [item_number |-> XYZ_7, description |-> PyNone, category |-> PyNone] >>

File(rows, readable, fieldnames, error_at) ==
    [given |-> TRUE, exists |-> readable, readable |-> readable,
     fieldnames |-> fieldnames, rows |-> rows, error_at |-> error_at]

\* reference_file=None
NoFile ==
    [given |-> FALSE, exists |-> FALSE, readable |-> FALSE,
     fieldnames |-> {}, rows |-> <<>>, error_at |-> 0]

\* the reference files: intact, cut short by a reader error at the fourth
\* row, without the category column, and missing
ReferenceFiles ==
    { File(SampleRows, TRUE, Columns, 0),
      File(LegacyRows, TRUE, Columns, 0),
      File(LegacyRows, TRUE, Columns, 4),
      File(SampleRows, TRUE, Columns \ {"category"}, 0),
      File(SampleRows, FALSE, Columns, 0) }

L001 == <<"L", "0", "0", "1">>
L003 == <<"L", "0", "0", "3">>
L005 == <<"L", "0", "0", "5">>

Item(line_id, item_number) == [line_id |-> line_id, item_number |-> item_number]

\* the items of an order: of the sample order, and malformed ones (no
\* line_id, a null line_id, no item_number, a number for an item number)
OrderItems ==
    { Item(PyStr(L001), PyStr(PCB_X7700)),
      Item(PyStr(L005), PyStr(CONN_7777)),
      Item(Absent, PyStr(XYZ_7)),
      Item(PyNone, PyStr(WIDGET)),
      Item(PyStr(L003), Absent),
      Item(PyStr(L003), PyInt(7777)) }

\* order_data["items"]
Orders == SeqsUpTo(OrderItems, MaxItems)

-----------------------------------------------------------------------------
(* Order validator: BOMAnalyzer.validate_item_numbers *)

Issue(issue_type, location, description, severity, recommendation) ==
    [issue_type |-> issue_type, location |-> location, description |-> description,
     severity |-> severity, recommendation |-> recommendation]

\* the issue of an item whose item number is not valid
InvalidItemIssue(cat, item, item_number, error_message) ==
    LET line_id    == GetOr(item.line_id, PyStr(<<"u", "n", "k", "n", "o", "w", "n">>))
        suggestion == suggest_correction(cat, item_number)
    IN  Issue("Invalid Item Number",
              <<"Line ID ">> \o Format(line_id),
              error_message,
              "medium",
              <<"Check and correct item number format">> \o
                  (IF Truthy(suggestion)
                   THEN <<" (suggested: ">> \o Format(suggestion) \o <<")">>
                   ELSE <<>>))

\* the loop over the items from item i on; an item number that is set and is
\* not a str makes validate_item_number raise TypeError ('-' in item_number)
RECURSIVE ValidateItemsFrom(_, _, _, _, _)
ValidateItemsFrom(cat, patterns, items, i, validation_issues) ==
    IF i > Len(items) THEN [raised |-> FALSE, issues |-> validation_issues]
    ELSE LET item        == items[i]
             item_number == Get(item.item_number)
         IN  IF ~Truthy(item_number)
             THEN ValidateItemsFrom(cat, patterns, items, i + 1, validation_issues)
             ELSE IF item_number.type # "str"
             THEN [raised |-> TRUE, issues |-> validation_issues]
             ELSE LET r == validate_item_number(cat, patterns, item_number.s)
                  IN  IF r[1]
                      THEN ValidateItemsFrom(cat, patterns, items, i + 1,
                                             validation_issues)
                      ELSE ValidateItemsFrom(cat, patterns, items, i + 1,
                               Append(validation_issues,
                                      InvalidItemIssue(cat, item, item_number.s, r[2])))

\* each issue is put at the head of the list
validate_item_numbers_Reversed(cat, patterns, items) ==
    LET r == ValidateItemsFrom(cat, patterns, items, 1, <<>>)
    IN  [raised |-> r.raised, issues |-> Reverse(r.issues)]

\* BOMAnalyzer.validate_item_numbers
validate_item_numbers(cat, patterns, items) ==
    ValidateItemsFrom(cat, patterns, items, 1, <<>>)

-----------------------------------------------------------------------------
(* The outcome of the external analysis: the call raises, the reply is not *)
(* JSON, or the reply parses to a JSON value that nothing checks: a dict   *)
(* with any of the three keys, or not a dict at all.                       *)

EmptyDict == [k \in {} |-> FALSE]

JsonDict(d) == [type |-> "dict", d |-> d]

\* a JSON array
JsonList == [type |-> "list", d |-> EmptyDict]

AnalysisResult(issues_found, total_issues, analysis) ==
    [issues_found |-> issues_found, total_issues |-> total_issues,
     analysis |-> analysis]

\* the i-th issue the external analysis reports
ExtIssue(i) ==
    Issue("Missing Field", <<"Line ID ">> \o <<"L", "0", "0">> \o IntToStr(i),
          <<"unit_price is missing">>, "high", <<"Add the unit price">>)

ExtAnalyses == {[i \in 1..n |-> ExtIssue(i)] : n \in 0..MaxExt}

\* the dicts with the three keys: the flag and the count need not agree with
\* the list
FullDicts ==
    {AnalysisResult(f, Len(a) + extra, a) :
        f \in BOOLEAN, extra \in {0, 1}, a \in ExtAnalyses}

Restrict(d, ks) == [k \in ks |-> d[k]]

\* dicts that lack keys
PartialDicts ==
    {Restrict(AnalysisResult(TRUE, 1, <<ExtIssue(1)>>), ks) :
        ks \in {{}, {"issues_found"}, {"total_issues", "analysis"},
                {"issues_found", "analysis"}}}

ExtOutcomes ==
    {[kind |-> "error", msg |-> "Connection error.", value |-> JsonList],
     [kind |-> "unparseable", msg |-> "Expecting value: line 1 column 1 (char 0)",
      value |-> JsonList]}
    \cup {[kind |-> "json", msg |-> "", value |-> v] :
            v \in {JsonDict(d) : d \in FullDicts \cup PartialDicts} \cup {JsonList}}

\* the external call is not reached
NotCalled == [kind |-> "not called", msg |-> "", value |-> JsonList]

-----------------------------------------------------------------------------
(* Reconciliation: the try block of BOMAnalyzer.analyze_order *)

\* a call returns v
Return(v) == [kind |-> "return", value |-> v]

\* a call raises the exception exc
Raise(exc) == [kind |-> "raise", value |-> exc]

\* ai_analysis.get("issues_found", False)
IssuesFoundOf(d) == IF "issues_found" \in DOMAIN d THEN d.issues_found ELSE FALSE

\* the except branch answers with the API error whatever the local issues are
OnExceptionApiErrorOnly(validation_issues, e) ==
    JsonDict(AnalysisResult(TRUE, 1,
        <<Issue("API Error", <<"System">>, <<"Error calling OpenAI API: ", e>>,
                "high", <<"Check API key and connectivity">>)>>))

\* the except branch swallows the failure when there is no local issue
OnExceptionNoIssue(validation_issues, e) ==
    IF validation_issues # <<>>
    THEN JsonDict(AnalysisResult(TRUE, Len(validation_issues), validation_issues))
    ELSE JsonDict(AnalysisResult(FALSE, 0, <<>>))

\* the except branch
OnException(validation_issues, e) ==
    IF validation_issues # <<>>
    THEN JsonDict(AnalysisResult(TRUE, Len(validation_issues), validation_issues))
    ELSE JsonDict(AnalysisResult(TRUE, 1,
             <<Issue("API Error", <<"System">>,
                     <<"Error calling OpenAI API: ", e>>, "high",
                     <<"Check API key and connectivity">>)>>))

\* extend without the update of total_issues
MergeStaleTotal(d, validation_issues) ==
    [k \in DOMAIN d |->
        IF k = "analysis" THEN d.analysis \o validation_issues ELSE d[k]]

\* the local issues replace the external ones
MergeOverwrite(d, validation_issues) ==
    [k \in DOMAIN d \cup {"total_issues"} |->
        CASE k = "analysis" -> validation_issues
          [] k = "total_issues" -> Len(validation_issues)
          [] OTHER -> d[k]]

\* the local issues are put before the external ones
MergePrepend(d, validation_issues) ==
    [k \in DOMAIN d \cup {"total_issues"} |->
        CASE k = "analysis" -> validation_issues \o d.analysis
          [] k = "total_issues" -> Len(validation_issues \o d.analysis)
          [] OTHER -> d[k]]

\* ai_analysis["analysis"].extend(validation_issues)
\* ai_analysis["total_issues"] = len(ai_analysis["analysis"])
Merge(d, validation_issues) ==
    LET analysis == d.analysis \o validation_issues
    IN  [k \in DOMAIN d \cup {"total_issues"} |->
            CASE k = "analysis" -> analysis
              [] k = "total_issues" -> Len(analysis)
              [] OTHER -> d[k]]

\* the outcome of a step of the try block: a value, or an exception
Value(v) == [raised |-> FALSE, e |-> "", value |-> v]

Raised(e) == [raised |-> TRUE, e |-> e, value |-> JsonList]

\* the elif branch is missing: an external result without issues is returned
\* whatever the local issues are
CombineNoElif(ai_analysis, validation_issues) ==
    IF validation_issues # <<>> /\ ai_analysis.type # "dict"
    THEN Raised("'list' object has no attribute 'get'")
    ELSE IF validation_issues # <<>> /\ IssuesFoundOf(ai_analysis.d)
    THEN IF "analysis" \notin DOMAIN ai_analysis.d
         THEN Raised("'analysis'")
         ELSE Value(JsonDict(Merge(ai_analysis.d, validation_issues)))
    ELSE Value(ai_analysis)

\* else for elif: without local issues the result is rebuilt from them
CombineElse(ai_analysis, validation_issues) ==
    IF validation_issues # <<>> /\ ai_analysis.type # "dict"
    THEN Raised("'list' object has no attribute 'get'")
    ELSE IF validation_issues # <<>> /\ IssuesFoundOf(ai_analysis.d)
    THEN IF "analysis" \notin DOMAIN ai_analysis.d
         THEN Raised("'analysis'")
         ELSE Value(JsonDict(Merge(ai_analysis.d, validation_issues)))
    ELSE Value(JsonDict(AnalysisResult(TRUE, Len(validation_issues),
                                       validation_issues)))

\* "Combine AI analysis with local validation results": .get of a value that
\* is no dict raises AttributeError and a dict without "analysis" KeyError,
\* both only when there are local issues (and short-circuits)
Combine(ai_analysis, validation_issues) ==
    IF validation_issues # <<>> /\ ai_analysis.type # "dict"
    THEN Raised("'list' object has no attribute 'get'")
    ELSE IF validation_issues # <<>> /\ IssuesFoundOf(ai_analysis.d)
    THEN IF "analysis" \notin DOMAIN ai_analysis.d
         THEN Raised("'analysis'")
         ELSE Value(JsonDict(Merge(ai_analysis.d, validation_issues)))
    ELSE IF validation_issues # <<>>
    THEN Value(JsonDict(AnalysisResult(TRUE, Len(validation_issues),
                                       validation_issues)))
    ELSE Value(ai_analysis)

\* the try block: the call, json.loads, then the combination
TryBlock(validation_issues, ext) ==
    IF ext.kind # "json" THEN Raised(ext.msg)
    ELSE Combine(ext.value, validation_issues)

\* the except branch only answers when there are local issues
ReconcileReraise(validation_issues, ext) ==
    LET r == TryBlock(validation_issues, ext)
    IN  IF ~r.raised THEN Return(r.value)
        ELSE IF validation_issues # <<>>
        THEN Return(OnException(validation_issues, r.e))
        ELSE Raise(r.e)

\* what analyze_order does after the local validation: try, except Exception
Reconcile(validation_issues, ext) ==
    LET r == TryBlock(validation_issues, ext)
    IN  IF r.raised THEN Return(OnException(validation_issues, r.e))
        ELSE Return(r.value)

\* the local issues of analyze_order
LocalValidation(cat, patterns, items, use_local_validation) ==
    IF use_local_validation THEN validate_item_numbers(cat, patterns, items)
    ELSE [raised |-> FALSE, issues |-> <<>>]

-----------------------------------------------------------------------------
(* The state machine: a validator is constructed, then its operations are  *)
(* called one after the other, in any order.  call records the operation   *)
(* that returned last and its inputs, ret what it returned; the caller     *)
(* takes the result before it calls again.                                 *)

\* no call is pending: the validator was constructed, or the caller took the
\* result of the last call
\* the threads that share the analyzer
Callers == {"t1", "t2"}

\* a thread that has not called validate_item_numbers yet
Ready == [pc |-> "ready", items |-> <<>>, i |-> 0, validation_issues |-> <<>>,
          result |-> [kind |-> "return", value |-> PyNone]]

Idle == call.op \in {"__init__", "idle"}

Init ==
    \E reference_file \in ReferenceFiles \cup {NoFile} :
        /\ reference_items = NewCatalog(reference_file)
        /\ item_patterns = PatternRegistry
        /\ call = [op |-> "__init__", before |-> <<>>, file |-> reference_file]
        /\ ret = Return(PyNone)
        /\ callers = [t \in Callers |-> Ready]

LoadReferenceData ==
    \E file \in ReferenceFiles :
        /\ Idle
        /\ reference_items' = load_reference_data(reference_items, file)
        /\ call' = [op |-> "load_reference_data", before |-> reference_items,
                    file |-> file]
        /\ ret' = LoadResult(file)
        /\ UNCHANGED <<item_patterns, callers>>

\* validate_item_number that stores what it validated in the catalog
ValidateItemNumber_Caches ==
    \E item_number \in ItemNumbers :
        /\ Idle
        /\ call' = [op |-> "validate_item_number", item_number |-> item_number]
        /\ ret' = Return(validate_item_number(reference_items, item_patterns,
                                              item_number))
        /\ reference_items' = DictSet(reference_items, item_number, PyNone, PyNone)
        /\ UNCHANGED <<item_patterns, callers>>

ValidateItemNumber ==
    \E item_number \in ItemNumbers :
        /\ Idle
        /\ call' = [op |-> "validate_item_number", item_number |-> item_number]
        /\ ret' = Return(validate_item_number(reference_items, item_patterns,
                                              item_number))
        /\ UNCHANGED <<reference_items, item_patterns, callers>>

SuggestCorrection ==
    \E item_number \in ItemNumbers :
        /\ Idle
        /\ call' = [op |-> "suggest_correction", item_number |-> item_number]
        /\ ret' = Return(suggest_correction(reference_items, item_number))
        /\ UNCHANGED <<reference_items, item_patterns, callers>>

ValidateItemNumbers ==
    \E items \in Orders :
        LET r == validate_item_numbers(reference_items, item_patterns, items)
        IN  /\ Idle
            /\ call' = [op |-> "validate_item_numbers", items |-> items]
            /\ ret' = IF r.raised THEN Raise("TypeError") ELSE Return(r.issues)
            /\ UNCHANGED <<reference_items, item_patterns, callers>>

AnalyzeOrder ==
    \E items \in Orders, use_local_validation \in BOOLEAN :
        LET local == LocalValidation(reference_items, item_patterns, items,
                                     use_local_validation)
        IN  /\ Idle
            /\ UNCHANGED <<reference_items, item_patterns, callers>>
            /\ IF local.raised
               THEN /\ call' = [op |-> "analyze_order", items |-> items,
                                use_local_validation |-> use_local_validation,
                                validation_issues |-> local.issues,
                                ext |-> NotCalled]
                    /\ ret' = Raise("TypeError")
               ELSE \E ext \in ExtOutcomes :
                    /\ call' = [op |-> "analyze_order", items |-> items,
                                use_local_validation |-> use_local_validation,
                                validation_issues |-> local.issues,
                                ext |-> ext]
                    /\ ret' = Reconcile(local.issues, ext)

\* the caller takes the result (or the exception) of the call
TakeResult ==
    /\ ~Idle
    /\ call' = [op |-> "idle"]
    /\ ret' = Return(PyNone)
    /\ UNCHANGED <<reference_items, item_patterns, callers>>

Next ==
    \/ LoadReferenceData
    \/ ValidateItemNumber
    \/ SuggestCorrection
    \/ ValidateItemNumbers
    \/ AnalyzeOrder
    \/ TakeResult

Spec == Init /\ [][Next]_vars

-----------------------------------------------------------------------------
(* Several threads call validate_item_numbers on one analyzer whose catalog *)
(* is not reloaded. Each call has its own list of issues and reads the      *)
(* catalog and the registry once per item; the threads interleave between   *)
(* the items.                                                               *)

\* the orders of the concurrent callers
ConcItems ==
    { Item(PyStr(L005), PyStr(CONN_7777)),
      Item(Absent, PyStr(XYZ_7)),
      Item(PyStr(L003), PyInt(7777)) }

ConcOrders == SeqsUpTo(ConcItems, MaxItems)

\* one list of issues shared by the calls in progress
AppendIssues_Shared(cs, t, issues) ==
    [u \in Callers |->
        IF u = t \/ cs[u].pc = "running"
        THEN [cs[u] EXCEPT !.validation_issues = @ \o issues]
        ELSE cs[u]]

\* validation_issues.append(issue) on the list of the call
AppendIssues(cs, t, issues) ==
    [cs EXCEPT ![t].validation_issues = @ \o issues]

\* the call begins: validation_issues = []
Begin(t) ==
    \E items \in ConcOrders :
        /\ callers[t].pc = "ready"
        /\ callers' = [callers EXCEPT ![t] =
                          [pc |-> "running", items |-> items, i |-> 1,
                           validation_issues |-> <<>>,
                           result |-> Return(PyNone)]]
        /\ UNCHANGED <<reference_items, item_patterns, call, ret>>

\* one pass of the loop, over item i of the order
Step(t) ==
    LET c == callers[t]
        r == ValidateItemsFrom(reference_items, item_patterns,
                               <<c.items[c.i]>>, 1, <<>>)
    IN  /\ c.pc = "running"
        /\ c.i <= Len(c.items)
        /\ callers' =
              IF r.raised
              THEN [callers EXCEPT ![t].pc = "done",
                                   ![t].result = Raise("TypeError")]
              ELSE [AppendIssues(callers, t, r.issues) EXCEPT ![t].i = @ + 1]
        /\ UNCHANGED <<reference_items, item_patterns, call, ret>>

\* return validation_issues
Finish(t) ==
    LET c == callers[t]
    IN  /\ c.pc = "running"
        /\ c.i > Len(c.items)
        /\ callers' = [callers EXCEPT ![t].pc = "done",
                                      ![t].result = Return(c.validation_issues)]
        /\ UNCHANGED <<reference_items, item_patterns, call, ret>>

NextConc ==
    \E t \in Callers :
        \/ Begin(t)
        \/ Step(t)
        \/ Finish(t)

SpecConc == Init /\ [][NextConc]_vars

-----------------------------------------------------------------------------
(* Properties of the reconciliation (analyze_order) *)

\* analyze_order made the external call and returned
Analyzed == call.op = "analyze_order" /\ ret.kind = "return"

\* the external call raised, or its reply was not JSON
ExtFailed == call.ext.kind \in {"error", "unparseable"}

\* the invariant of an Analysis Result
IsAnalysisResult(v) ==
    /\ v.type = "dict"
    /\ DOMAIN v.d = {"issues_found", "total_issues", "analysis"}
    /\ v.d.total_issues = Len(v.d.analysis)
    /\ v.d.issues_found = (v.d.total_issues > 0)

\* the external call succeeded with an Analysis Result
ExtSucceeded == call.ext.kind = "json" /\ IsAnalysisResult(call.ext.value)

\* the elements of a sequence
Range(s) == {s[i] : i \in DOMAIN s}

ExtReportedIssues ==
    /\ call.ext.kind = "json"
    /\ call.ext.value.type = "dict"
    /\ {"issues_found", "analysis"} \subseteq DOMAIN call.ext.value.d
    /\ call.ext.value.d.issues_found

\* C3: when the external call reported issues and there are local issues, the
\* result's analysis is the external issues followed by the local issues, each
\* in its order, total_issues their number and issues_found true
C3_MergeOrder ==
    (Analyzed /\ ExtReportedIssues /\ call.validation_issues # <<>>) =>
        /\ ret.value.type = "dict"
        /\ ret.value.d.analysis = call.ext.value.d.analysis \o call.validation_issues
        /\ ret.value.d.total_issues =
              Len(call.ext.value.d.analysis) + Len(call.validation_issues)
        /\ ret.value.d.issues_found = TRUE

\* C3: two external issues and two different local issues were merged
C3_Witness ==
    /\ Analyzed /\ ExtReportedIssues
    /\ Len(call.ext.value.d.analysis) = 2
    /\ Len(call.validation_issues) = 2
    /\ call.validation_issues[1] # call.validation_issues[2]
    /\ ret.value.d.analysis[3] = call.validation_issues[1]

\* C4: when the external call failed and there are local issues, the result
\* is built from the local issues alone, in their order
C4_FailureWithLocal ==
    (Analyzed /\ ExtFailed /\ call.validation_issues # <<>>) =>
        ret.value = JsonDict(AnalysisResult(TRUE, Len(call.validation_issues),
                                            call.validation_issues))

\* C4: the call failed for an order with two invalid items
C4_Witness ==
    /\ Analyzed /\ ExtFailed
    /\ Len(call.validation_issues) = 2
    /\ ret.value.d.total_issues = 2

\* C5: when the external call failed and there is no local issue, the result
\* holds exactly one issue, of type "API Error" and severity "high", whose
\* description tells the failure; total_issues is 1 and issues_found true
C5_FailureWithoutLocal ==
    (Analyzed /\ ExtFailed /\ call.validation_issues = <<>>) =>
        /\ IsAnalysisResult(ret.value)
        /\ ret.value.d.issues_found = TRUE
        /\ ret.value.d.total_issues = 1
        /\ Len(ret.value.d.analysis) = 1
        /\ ret.value.d.analysis[1].issue_type = "API Error"
        /\ ret.value.d.analysis[1].severity = "high"
        /\ Contains(ret.value.d.analysis[1].description, <<call.ext.msg>>)

\* C5: the reply was not JSON and no item of the order was invalid
C5_Witness ==
    /\ Analyzed /\ call.ext.kind = "unparseable"
    /\ call.use_local_validation /\ call.items # <<>>
    /\ call.validation_issues = <<>>
    /\ ret.value.d.analysis[1].issue_type = "API Error"

\* the external call succeeded and reported no issue: a dict whose
\* issues_found is false
ExtReportedNoIssue ==
    /\ call.ext.kind = "json"
    /\ call.ext.value.type = "dict"
    /\ "issues_found" \in DOMAIN call.ext.value.d
    /\ ~call.ext.value.d.issues_found

\* C6: when the external call reported no issue and there are local issues,
\* the result is built from the local issues alone, in their order
C6_LocalOnly ==
    (Analyzed /\ ExtReportedNoIssue /\ call.validation_issues # <<>>) =>
        ret.value = JsonDict(AnalysisResult(TRUE, Len(call.validation_issues),
                                            call.validation_issues))

\* C6: an empty external result and two local issues
C6_Witness ==
    /\ Analyzed /\ ExtSucceeded /\ ExtReportedNoIssue
    /\ Len(call.validation_issues) = 2
    /\ ret.value.d.analysis = call.validation_issues

\* C7: when the external call succeeded and there is no local issue (none
\* found, or the local validation is off), the external result is returned
\* as it is
C7_PassThrough ==
    (Analyzed /\ call.ext.kind = "json" /\ call.validation_issues = <<>>) =>
        ret.value = call.ext.value

\* C7: the empty external result of an order without defects is returned
C7_Witness ==
    /\ Analyzed /\ ExtSucceeded
    /\ call.use_local_validation /\ call.items # <<>>
    /\ call.validation_issues = <<>>
    /\ call.ext.value.d.analysis = <<>>
    /\ ret.value = call.ext.value

\* the external analysis failed: the call raised, the reply was not JSON, or
\* the reply could not be consumed (no dict, or a dict that reports issues and
\* has no list of them, met when the local issues are combined with it)
ExtFailure ==
    \/ ExtFailed
    \/ /\ call.ext.kind = "json"
       /\ call.validation_issues # <<>>
       /\ \/ call.ext.value.type # "dict"
          \/ /\ "issues_found" \in DOMAIN call.ext.value.d
             /\ call.ext.value.d.issues_found
             /\ "analysis" \notin DOMAIN call.ext.value.d

\* C8: a failure of the external analysis never leaves analyze_order: the
\* call returns an Analysis Result with the keys issues_found, total_issues
\* and analysis
C8_FailureNotPropagated ==
    (call.op = "analyze_order" /\ call.ext.kind # "not called" /\ ExtFailure) =>
        /\ ret.kind = "return"
        /\ IsAnalysisResult(ret.value)

\* C8: the call raised while the local validation was off
C8_Witness ==
    /\ Analyzed /\ call.ext.kind = "error"
    /\ ~call.use_local_validation
    /\ IsAnalysisResult(ret.value)

-----------------------------------------------------------------------------
(* Properties of the item validator *)

\* validate_item_number returned for an item number
Validated == call.op = "validate_item_number" /\ ret.kind = "return"

\* the items of an order whose item number is a str that is not in the catalog
NotInCatalog(items) ==
    {i \in DOMAIN items :
        /\ Get(items[i].item_number).type = "str"
        /\ Get(items[i].item_number).s \notin Keys(reference_items)}

\* C9: an item number that is a key of the catalog is valid, with the empty
\* message, whatever its prefix and its rule; so the items of an order that
\* are in the catalog give no issue
C9_CatalogItemValid ==
    /\ (Validated /\ call.item_number \in Keys(reference_items)) =>
          ret.value = <<TRUE, <<>>>>
    /\ (call.op = "validate_item_numbers" /\ ret.kind = "return") =>
          Len(ret.value) <= Cardinality(NotInCatalog(call.items))

\* C9: an item number of the catalog that fails the rule of its prefix
C9_Witness ==
    /\ Validated
    /\ call.item_number \in Keys(reference_items)
    /\ PrefixOf(call.item_number) \in DOMAIN item_patterns
    /\ ~re_match(item_patterns[PrefixOf(call.item_number)], call.item_number)
    /\ ret.value[1]

\* the item number is not in the catalog and its prefix has a rule
RuleApplies ==
    /\ Validated
    /\ call.item_number \notin Keys(reference_items)
    /\ PrefixOf(call.item_number) \in DOMAIN item_patterns

NoRuleApplies ==
    /\ Validated
    /\ call.item_number \notin Keys(reference_items)
    /\ PrefixOf(call.item_number) \notin DOMAIN item_patterns

\* C11: an item number that is not in the catalog and whose prefix (the part
\* before the first '-', empty without a '-') has no rule is never valid, and
\* the message names that prefix
C11_UnknownPrefixInvalid ==
    NoRuleApplies =>
        /\ ret.value[1] = FALSE
        /\ Len(ret.value[2]) = Len(PrefixOf(call.item_number)) + 1
        /\ ret.value[2][1] = "Unknown item number prefix: "
        /\ SubSeq(ret.value[2], 2, Len(ret.value[2])) = PrefixOf(call.item_number)

\* C11: an item number without '-' was refused with the empty prefix
C11_Witness ==
    /\ NoRuleApplies
    /\ call.item_number = WIDGET
    /\ ret.value = <<FALSE, <<"Unknown item number prefix: ">>>>

\* suggest_correction returned for an item number
Suggested == call.op = "suggest_correction" /\ ret.kind = "return"

\* the prefix is CONN and the item number ends neither in -M nor in -F
ConnCase(item_number) ==
    /\ PrefixOf(item_number) = <<"C", "O", "N", "N">>
    /\ ~EndsWith(item_number, <<"-", "M">>)
    /\ ~EndsWith(item_number, <<"-", "F">>)

\* C12: for a CONN item number without -M or -F at its end the suggestion is
\* the item number with -F appended, whatever the catalog holds
C12_ConnSuggestion ==
    (Suggested /\ ConnCase(call.item_number)) =>
        ret.value = PyStr(call.item_number \o <<"-", "F">>)

\* C12: CONN-7777 gives CONN-7777-F though the catalog has CONN keys
C12_Witness ==
    /\ Suggested
    /\ call.item_number = CONN_7777
    /\ CONN_DB9_F \in Keys(reference_items)
    /\ ret.value = PyStr(CONN_7777 \o <<"-", "F">>)

\* the positions of the catalog keys that contain the prefix of the item number
MatchingKeys(item_number) ==
    {i \in DOMAIN reference_items :
        Contains(reference_items[i].item_number, PrefixOf(item_number))}

\* the least element of a non-empty set of numbers
Least(S) == CHOOSE i \in S : \A j \in S : i <= j

\* C13: outside the CONN case the suggestion is the first key of the catalog,
\* in insertion order, that contains the prefix, and None exactly when no key
\* contains it
C13_FirstMatch ==
    (Suggested /\ ~ConnCase(call.item_number)) =>
        IF MatchingKeys(call.item_number) = {}
        THEN ret.value = PyNone
        ELSE ret.value =
               PyStr(reference_items[Least(MatchingKeys(call.item_number))].item_number)

\* C13: two keys contain the prefix and the first of them is not the first
\* key of the catalog
C13_Witness ==
    /\ Suggested /\ ~ConnCase(call.item_number)
    /\ Cardinality(MatchingKeys(call.item_number)) >= 2
    /\ Least(MatchingKeys(call.item_number)) > 1
    /\ ret.value.type = "str"

\* C20: the message of validate_item_number is empty exactly when the item
\* number is valid
C20_MessageIffInvalid ==
    Validated => (ret.value[1] <=> (ret.value[2] = <<>>))

\* C20: an item number with the rule-less prefix XYZ got a message
C20_Witness ==
    /\ Validated
    /\ PrefixOf(call.item_number) = <<"X", "Y", "Z">>
    /\ ~ret.value[1]
    /\ Len(ret.value[2]) = 4

-----------------------------------------------------------------------------
(* Properties of the order validator *)

\* validate_item_numbers returned for an order
OrderValidated == call.op = "validate_item_numbers" /\ ret.kind = "return"

\* the item has an item number and validate_item_number refuses it
FailsValidation(item) ==
    /\ Get(item.item_number).type = "str"
    /\ Truthy(Get(item.item_number))
    /\ ~validate_item_number(reference_items, item_patterns,
                             Get(item.item_number).s)[1]

\* the items of the order that fail, in the order of the items
FailingItems(items) == SelectSeq(items, FailsValidation)

\* the message of validate_item_number for the item
MessageOf(item) ==
    validate_item_number(reference_items, item_patterns,
                         Get(item.item_number).s)[2]

\* C14: validate_item_numbers returns one issue for each item that has an
\* item number and fails validate_item_number, none for the others, in the
\* order of the items
C14_OneIssuePerFailingItem ==
    OrderValidated =>
        /\ Len(ret.value) = Len(FailingItems(call.items))
        /\ \A k \in DOMAIN ret.value :
              ret.value[k].description = MessageOf(FailingItems(call.items)[k])

\* C14: the two items of the order failed, with different messages
C14_Witness ==
    /\ OrderValidated
    /\ Len(call.items) = 2
    /\ Len(ret.value) = 2
    /\ ret.value[1].description # ret.value[2].description

\* the item has no line_id: the key is missing, or its value is null
NoLineId(item) == item.line_id \in {Absent, PyNone}

\* the issue the order validator is to build for a failing item
ExpectedIssue(item) ==
    LET suggestion == suggest_correction(reference_items, Get(item.item_number).s)
    IN  Issue("Invalid Item Number",
              <<"Line ID ">> \o (IF NoLineId(item)
                                 THEN <<"u", "n", "k", "n", "o", "w", "n">>
                                 ELSE Format(item.line_id)),
              MessageOf(item),
              "medium",
              <<"Check and correct item number format">> \o
                  (IF suggestion # PyNone
                   THEN <<" (suggested: ">> \o Format(suggestion) \o <<")">>
                   ELSE <<>>))

\* C15: every issue of validate_item_numbers has the type "Invalid Item
\* Number", the severity "medium", the validator's message as description,
\* the location "Line ID " with the line_id of the item, or "unknown" when the
\* item has none, and the recommendation with " (suggested: X)" appended
\* exactly when suggest_correction gives X
C15_IssueFields ==
    OrderValidated =>
        \A k \in DOMAIN ret.value :
            k <= Len(FailingItems(call.items)) =>
                ret.value[k] = ExpectedIssue(FailingItems(call.items)[k])

\* C16: validate_item_numbers and analyze_order return for every order,
\* whatever the fields of its items hold
C16_NeverRaises ==
    call.op \in {"validate_item_numbers", "analyze_order"} => ret.kind = "return"

-----------------------------------------------------------------------------
(* Properties of the reference catalog *)

\* the constructor or load_reference_data was given a reference file
Loaded == call.op \in {"__init__", "load_reference_data"}

\* the number of rows of the file stored before the load ended
AcceptedRows(file) ==
    IF ~file.readable \/ ~(Columns \subseteq file.fieldnames) THEN 0
    ELSE IF file.error_at \in 1..Len(file.rows) THEN file.error_at - 1
    ELSE Len(file.rows)

\* the accepted rows of the file that carry the key
RowsFor(file, key) ==
    {j \in 1..AcceptedRows(file) : file.rows[j].item_number = key}

\* the greatest element of a non-empty set of numbers
Greatest(S) == CHOOSE i \in S : \A j \in S : j <= i

\* the entry of the catalog for the key when the load failed: that of the last
\* accepted row with the key, else the one the catalog had before
EntryAtFailure(file, before, key) ==
    IF RowsFor(file, key) # {} THEN file.rows[Greatest(RowsFor(file, key))]
    ELSE before[IndexOf(before, key)]

\* C17: a load from a missing, unreadable or malformed source returns and
\* leaves the catalog as it was when the load failed: every entry of earlier
\* loads and of the rows accepted before the failure is there, in its place,
\* with its description and category, and nothing else; the registry is
\* untouched, and the catalog is as before when no row was accepted
C17_FailedLoadKeepsAccepted ==
    (Loaded /\ FileFails(call.file)) =>
        LET file == call.file
            keys == Keys(call.before) \cup
                    {file.rows[j].item_number : j \in 1..AcceptedRows(file)}
        IN  /\ ret.kind = "return"
            /\ item_patterns = PatternRegistry
            /\ Keys(reference_items) = keys
            /\ Len(reference_items) = Cardinality(keys)
            /\ \A i \in DOMAIN reference_items :
                  reference_items[i] =
                      EntryAtFailure(file, call.before, reference_items[i].item_number)
            /\ \A i \in DOMAIN call.before :
                  reference_items[i].item_number = call.before[i].item_number
            /\ AcceptedRows(file) = 0 => reference_items = call.before

\* C17: a load failed at its fourth row after a row had given a key of an
\* earlier load another description
C17_Witness ==
    /\ call.op = "load_reference_data" /\ FileFails(call.file)
    /\ AcceptedRows(call.file) = 3
    /\ Len(call.before) = 10
    /\ Len(reference_items) = 12
    /\ reference_items[1] # call.before[1]

\* the operations on a constructed validator or analyzer
ReadOps ==
    {"validate_item_number", "suggest_correction", "validate_item_numbers",
     "analyze_order"}

-----------------------------------------------------------------------------
(* Properties of concurrent callers *)

\* what validate_item_numbers gives for the order when run alone
Alone(items) ==
    LET r == validate_item_numbers(reference_items, item_patterns, items)
    IN  IF r.raised THEN Raise("TypeError") ELSE Return(r.issues)

\* C19: a call of validate_item_numbers interleaved with other calls on the
\* same analyzer gives the issue list (or the exception) it gives alone
C19_InterleavedAsAlone ==
    \A t \in Callers :
        callers[t].pc = "done" => callers[t].result = Alone(callers[t].items)

\* C19: two calls on different orders ran to the end and gave different,
\* non-empty issue lists
C19_Witness ==
    /\ \A t \in Callers : callers[t].pc = "done" /\ callers[t].result.kind = "return"
    /\ callers["t1"].items # callers["t2"].items
    /\ Len(callers["t1"].result.value) = 2
    /\ Len(callers["t2"].result.value) = 1

-----------------------------------------------------------------------------
(* Suggestions for item numbers without a delimiter *)

\* C21: for an item number without '-' the prefix is the empty string, so
\* suggest_correction returns the first key of the catalog, whatever the item
\* number is, and None exactly when the catalog is empty
C21_NoDashFirstKey ==
    (Suggested /\ ~HasDash(call.item_number)) =>
        /\ PrefixOf(call.item_number) = <<>>
        /\ \A key \in Keys(reference_items) : Contains(key, PrefixOf(call.item_number))
        /\ IF reference_items = <<>>
           THEN ret.value = PyNone
           ELSE ret.value = PyStr(reference_items[1].item_number)

\* C21: WIDGET, which no key of the sample catalog contains, is answered with
\* the first key of that catalog
C21_Witness ==
    /\ Suggested
    /\ call.item_number = WIDGET
    /\ Len(reference_items) = 10
    /\ \A key \in Keys(reference_items) : ~Contains(key, WIDGET)
    /\ ret.value = PyStr(reference_items[1].item_number)

====
